---------------------------- MODULE Spec2Model ----------------------------
(***************************************************************************)
(* Voice-turn controller of the Voice RAG frontend (frontend/src/App.jsx). *)
(*                                                                         *)
(* The React component App keeps its conversation state in useState cells  *)
(* (isRecording, isListening, ...) and in useRef cells (the microphone     *)
(* stream, the Deepgram connection, the transcript buffer, the silence     *)
(* timer, the processing / speaking flags).  All code runs on the browser  *)
(* event loop: every action below is one event-loop task (a click, a       *)
(* connection event, a timer fire, the settlement of an awaited promise    *)
(* together with the microtasks that follow it without interruption).      *)
(*                                                                         *)
(* Texts are sequences of one-character strings so that trim() and string  *)
(* concatenation are computed, not assumed.                                *)
(***************************************************************************)
EXTENDS Naturals, Sequences, FiniteSets

(***************************************************************************)
(* Bounds of the model.                                                    *)
(***************************************************************************)
\* startRecording invocations that reach getUserMedia, and processTranscript
\* invocations that return, in the specification Spec
MaxSessions == 2
MaxDispatch == 2
\* the same in the specifications of one conversation turn
TurnSessions == 1
TurnDispatch == 1
\* length of the transcript buffer, in characters
MaxBufLen == 4

(***************************************************************************)
(* Texts.                                                                  *)
(***************************************************************************)
Empty == << >>
Space == <<" ">>

\* transcripts the transcription service delivers: nothing, blank, a word
TranscriptTexts == { Empty, Space, <<"a">> }
\* the same with two different words
FragmentTexts == TranscriptTexts \cup { <<"b">> }

\* answers of the question-answering service
Answers == { <<"x">> }

RECURSIVE TrimStart(_)
TrimStart(s) ==
    IF s = Empty THEN Empty
    ELSE IF Head(s) = " " THEN TrimStart(Tail(s)) ELSE s

RECURSIVE TrimEnd(_)
TrimEnd(s) ==
    IF s = Empty THEN Empty
    ELSE IF s[Len(s)] = " " THEN TrimEnd(SubSeq(s, 1, Len(s) - 1)) ELSE s

\* mutant: nothing is trimmed
Trim_None(s) == s

\* String.prototype.trim
Trim(s) == TrimEnd(TrimStart(s))

\* `transcriptText && transcriptText.trim()`: a non-blank text
Truthy(s) == Trim(s) /= Empty

\* mutant: the fragment is glued on without the separating space
AppendFragment_NoSpace(buf, text) == buf \o text

\* `transcriptBufferRef.current += ' ' + transcriptText`
AppendFragment(buf, text) == buf \o Space \o text

\* `transcriptBufferRef.current + ' ' + transcriptText` of the interim branch
InterimTranscript(buf, text) == buf \o Space \o text

(***************************************************************************)
(* State.                                                                  *)
(***************************************************************************)
VARIABLES
    \* useState cells
    documentUploaded, isRecording, isProcessing, isSpeaking, isListening,
    transcript, response, error, chatHistory,
    \* useRef cells
    mediaRecorderRef, deepgramSocketRef, deepgramApiKeyRef,
    transcriptBufferRef, audioStreamRef, isProcessingRef, silenceTimerRef,
    isSpeakingRef,
    \* the browser and the services
    pendingMount,   \* requests of the mount effect not yet settled
    micPending,     \* startRecording invocations awaiting getUserMedia
    sess,           \* microphone stream, connection, recorder per session
    timers,         \* setTimeout timers armed and neither fired nor cleared,
                    \* each with the isRecording its callback captured
    disp,           \* processTranscript invocations that sent a query
    \* history variables of the verification
    accepted,       \* fragments appended since the buffer was last emptied
    lastOp          \* the handler that ran last, where a property needs it

uiVars == << documentUploaded, isRecording, isProcessing, isSpeaking,
             isListening, transcript, response, error, chatHistory >>
refVars == << mediaRecorderRef, deepgramSocketRef, deepgramApiKeyRef,
              transcriptBufferRef, audioStreamRef, isProcessingRef,
              silenceTimerRef, isSpeakingRef >>
envVars == << pendingMount, micPending, sess, timers, disp >>
progVars == << uiVars, refVars, envVars, accepted >>
vars == << progVars, lastOp >>

Op(name) == [op |-> name]

\* the last step was the last event of an audio element (its ended event, its
\* error event or the rejection of its play()); revoked tells whether
\* URL.revokeObjectURL has been called on its blob URL by the end of the step
AudioExit(how, revoked) ==
    [op |-> "audioExit", how |-> how, revoked |-> revoked]

\* the last step was the catch block of startRecording; made is the session
\* whose connection the invocation had created, 0 if it had created none
StartFailed(made) == [op |-> "startFailed", made |-> made]

Init ==
    /\ documentUploaded = FALSE
    /\ isRecording = FALSE
    /\ isProcessing = FALSE
    /\ isSpeaking = FALSE
    /\ isListening = FALSE
    /\ transcript = Empty
    /\ response = Empty
    /\ error = ""
    /\ chatHistory = << >>
    /\ mediaRecorderRef = 0
    /\ deepgramSocketRef = 0
    /\ deepgramApiKeyRef = FALSE
    /\ transcriptBufferRef = Empty
    /\ audioStreamRef = 0
    /\ isProcessingRef = FALSE
    /\ silenceTimerRef = 0
    /\ isSpeakingRef = FALSE
    /\ pendingMount = { "keys", "health" }
    /\ micPending = << >>
    /\ sess = << >>
    /\ timers = {}
    /\ disp = << >>
    /\ accepted = << >>
    /\ lastOp = Op("other")


(***************************************************************************)
(* Mount effect, document upload and reset.                                *)
(***************************************************************************)
\* fetchApiKeys settles: the key is stored, or the failure is shown
FetchApiKeys(ok) ==
    /\ "keys" \in pendingMount
    /\ pendingMount' = pendingMount \ { "keys" }
    /\ IF ok
       THEN deepgramApiKeyRef' = TRUE /\ error' = error
       ELSE deepgramApiKeyRef' = deepgramApiKeyRef /\ error' = "apiKeys"
    /\ lastOp' = Op("other")
    /\ UNCHANGED << documentUploaded, isRecording, isProcessing, isSpeaking,
                    isListening, transcript, response, chatHistory,
                    mediaRecorderRef, deepgramSocketRef, transcriptBufferRef,
                    audioStreamRef, isProcessingRef, silenceTimerRef,
                    isSpeakingRef, micPending, sess, timers, disp, accepted >>

\* checkDocumentStatus settles: a loaded document is adopted, a failure is
\* only logged
CheckDocumentStatus(loaded) ==
    /\ "health" \in pendingMount
    /\ pendingMount' = pendingMount \ { "health" }
    /\ documentUploaded' = (documentUploaded \/ loaded)
    /\ lastOp' = Op("other")
    /\ UNCHANGED << isRecording, isProcessing, isSpeaking, isListening,
                    transcript, response, error, chatHistory, refVars,
                    micPending, sess, timers, disp, accepted >>

\* handleFileUpload, from the choice of a valid file to the settlement of the
\* upload request (the file input is rendered while no document is loaded)
HandleFileUpload(ok) ==
    /\ ~documentUploaded
    /\ IF ok
       THEN documentUploaded' = TRUE /\ error' = ""
       ELSE documentUploaded' = documentUploaded /\ error' = "upload"
    /\ lastOp' = Op("other")
    /\ UNCHANGED << isRecording, isProcessing, isSpeaking, isListening,
                    transcript, response, chatHistory, refVars, envVars,
                    accepted >>

\* resetDocument (the button is rendered while a document is loaded)
ResetDocument ==
    /\ documentUploaded
    /\ documentUploaded' = FALSE
    /\ chatHistory' = << >>
    /\ transcript' = Empty
    /\ response' = Empty
    /\ lastOp' = [ op |-> "resetDocument", had |-> Len(chatHistory) ]
    /\ UNCHANGED << isRecording, isProcessing, isSpeaking, isListening, error,
                    refVars, envVars, accepted >>

(***************************************************************************)
(* Helpers on timers, streams and connections.                             *)
(***************************************************************************)
\* mutant: the pending timer is left armed
ClearSilenceTimer_Keep(ts, ref) == ts

\* `if (silenceTimerRef.current) clearTimeout(silenceTimerRef.current)`:
\* timer ids start at 1, so a null ref (0) clears nothing
ClearSilenceTimer(ts, ref) == { t \in ts : t.id /= ref }

\* the id setTimeout returns: one no armed timer has.  The id of a timer
\* that has fired or was cleared may return: every setTimeout of the program
\* assigns its result to silenceTimerRef, so no stale id outlives the arming
\* of the timer that takes it.
FreshTimer(ts) ==
    CHOOSE n \in 1 .. (Cardinality(ts) + 1) : \A t \in ts : t.id /= n

\* `stream.getTracks().forEach(track => track.stop())`; a recorder whose
\* tracks have all ended stops capturing
StopTracks(ss, id) ==
    IF id = 0 THEN ss
    ELSE [ss EXCEPT ![id].track = "stopped",
                    ![id].rec = IF @ = "recording" THEN "inactive" ELSE @]

\* `connection.finish()`: the close of the connection is requested
Finish(ss, id) ==
    IF id = 0 THEN ss ELSE [ss EXCEPT ![id].finished = TRUE]

\* a session whose connection has closed and whose tracks have stopped: its
\* stream, connection and recorder deliver no further event
Gone ==
    [ track |-> "stopped", conn |-> "closed", finished |-> FALSE,
      rec |-> "inactive", handlers |-> FALSE, cap |-> FALSE ]

\* the objects of a session that can act no more are forgotten
Retire(ss) ==
    [ s \in DOMAIN ss |->
        IF ss[s].conn = "closed" /\ ss[s].track = "stopped"
        THEN Gone ELSE ss[s] ]

(***************************************************************************)
(* startRecording.                                                         *)
(***************************************************************************)
\* mutant: the credential check always passes
KeyLoaded_Always == TRUE

\* `deepgramApiKeyRef.current` as the credential check of startRecording
\* reads it
KeyLoaded == deepgramApiKeyRef

\* the click on "Start Conversation", up to the await of getUserMedia; the
\* button is rendered while a document is loaded and isRecording is false, and
\* is disabled while processing or speaking.  The invocation captures the
\* isRecording of the render it was created in.
StartRecording ==
    /\ documentUploaded /\ ~isRecording /\ ~isProcessing /\ ~isSpeaking
    /\ IF ~KeyLoaded
       THEN /\ error' = "apiKeyNotLoaded"
            /\ UNCHANGED << transcript, response, isRecording, micPending >>
       ELSE /\ error' = ""
            /\ transcript' = Empty
            /\ response' = Empty
            /\ isRecording' = TRUE
            /\ micPending' = Append(micPending, isRecording)
    /\ lastOp' = Op("startRecording")
    /\ UNCHANGED << documentUploaded, isProcessing, isSpeaking, isListening,
                    chatHistory, refVars, pendingMount, sess, timers, disp,
                    accepted >>

RemoveAt(q, i) == SubSeq(q, 1, i - 1) \o SubSeq(q, i + 1, Len(q))

\* getUserMedia resolves for the i-th waiting invocation; the connection is
\* created and, unless `new MediaRecorder` throws, the recorder and the
\* connection handlers are set up
MicGranted(i, recorderOk) ==
    /\ i \in 1 .. Len(micPending)
    /\ micPending' = RemoveAt(micPending, i)
    /\ LET s == Len(sess) + 1
           new == [ track |-> "live", conn |-> "connecting",
                    finished |-> FALSE,
                    rec |-> IF recorderOk THEN "inactive" ELSE "none",
                    handlers |-> recorderOk, cap |-> micPending[i] ]
       IN  /\ deepgramSocketRef' = s
           /\ IF recorderOk
              THEN /\ sess' = Append(sess, new)
                   /\ audioStreamRef' = s
                   /\ mediaRecorderRef' = s
                   /\ UNCHANGED << error, isRecording >>
              ELSE \* catch of startRecording
                   /\ sess' = Retire(StopTracks(Append(sess, new), s))
                   /\ audioStreamRef' = 0
                   /\ mediaRecorderRef' = mediaRecorderRef
                   /\ error' = "startFailed"
                   /\ isRecording' = FALSE
    /\ lastOp' = IF recorderOk THEN Op("other")
                             ELSE StartFailed(Len(sess) + 1)
    /\ UNCHANGED << documentUploaded, isProcessing, isSpeaking, isListening,
                    transcript, response, chatHistory, deepgramApiKeyRef,
                    transcriptBufferRef, isProcessingRef, silenceTimerRef,
                    isSpeakingRef, pendingMount, timers, disp, accepted >>

\* getUserMedia rejects for the i-th waiting invocation: catch of
\* startRecording
MicDenied(i) ==
    /\ i \in 1 .. Len(micPending)
    /\ micPending' = RemoveAt(micPending, i)
    /\ error' = "microphone"
    /\ isRecording' = FALSE
    /\ sess' = Retire(StopTracks(sess, audioStreamRef))
    /\ audioStreamRef' = 0
    /\ lastOp' = StartFailed(0)
    /\ UNCHANGED << documentUploaded, isProcessing, isSpeaking, isListening,
                    transcript, response, chatHistory, mediaRecorderRef,
                    deepgramSocketRef, deepgramApiKeyRef, transcriptBufferRef,
                    isProcessingRef, silenceTimerRef, isSpeakingRef,
                    pendingMount, timers, disp, accepted >>

(***************************************************************************)
(* stopRecording.                                                          *)
(***************************************************************************)
\* mutant: the flags are toggled
StopFlag_Toggle == ~isRecording

\* the value of `setIsRecording(false); setIsListening(false)`
StopFlag == FALSE

\* one run of stopRecording, from whatever state
StopRecordingCall ==
    /\ isRecording' = StopFlag
    /\ isListening' = StopFlag
    /\ timers' = ClearSilenceTimer(timers, silenceTimerRef)
    /\ silenceTimerRef' = 0
    /\ LET stopRec == mediaRecorderRef /= 0
                      /\ sess[mediaRecorderRef].rec /= "inactive"
           s1 == IF stopRec
                 THEN [sess EXCEPT ![mediaRecorderRef].rec = "inactive"]
                 ELSE sess
           s2 == StopTracks(s1, audioStreamRef)
       IN  /\ mediaRecorderRef' = IF stopRec THEN 0 ELSE mediaRecorderRef
           /\ sess' = Retire(Finish(s2, deepgramSocketRef))
    /\ audioStreamRef' = 0
    /\ deepgramSocketRef' = 0
    \* history: the dispatches whose query was in flight when stop() ran
    /\ disp' = [d \in DOMAIN disp |->
                  IF disp[d].pc = "query"
                  THEN [disp[d] EXCEPT !.stopped = TRUE] ELSE disp[d]]
    /\ lastOp' = [ op |-> "stopRecording",
                   again |-> (lastOp.op = "stopRecording"),
                   pending |-> (timers /= {}) ]
    /\ UNCHANGED << documentUploaded, isProcessing, isSpeaking, transcript,
                    response, error, chatHistory, deepgramApiKeyRef,
                    transcriptBufferRef, isProcessingRef, isSpeakingRef,
                    pendingMount, micPending, accepted >>

\* the click on "Stop Conversation" (rendered while a document is loaded and
\* isRecording is true)
StopRecording ==
    /\ documentUploaded /\ isRecording
    /\ StopRecordingCall

(***************************************************************************)
(* Handlers of the connection events (registered by startRecording).       *)
(***************************************************************************)
\* mutant: the ready state of the connection is not read
ReadyOpen_Held(ss, ref) == ref /= 0

\* `deepgramSocketRef.current && getReadyState() === 1`
ReadyOpen(ss, ref) == ref /= 0 /\ ss[ref].conn = "open"

\* mediaRecorder.ondataavailable of session s, with a chunk that holds data or
\* not: the chunk is sent into the connection deepgramSocketRef holds, or
\* dropped.  The handler changes nothing of the program; the step records
\* the connection the chunk went into, 0 if it went nowhere.
DataAvailable(s, hasData) ==
    /\ s \in DOMAIN sess
    /\ sess[s].rec = "recording"
    /\ lastOp' = [ op |-> "dataAvailable",
                   sent |-> IF hasData /\ ReadyOpen(sess, deepgramSocketRef)
                            THEN deepgramSocketRef ELSE 0 ]
    /\ UNCHANGED progVars

\* LiveTranscriptionEvents.Open of session s.  Without registered handlers
\* the event only changes the connection.
ConnOpen(s) ==
    /\ s \in DOMAIN sess
    /\ sess[s].conn = "connecting"
    /\ IF sess[s].handlers
       THEN /\ transcriptBufferRef' = Empty
            /\ accepted' = << >>
            /\ isListening' = TRUE
            \* mediaRecorder.start(): captures only from live tracks
            /\ sess' = [sess EXCEPT ![s].conn = "open",
                          ![s].rec = IF sess[s].track = "live"
                                     THEN "recording" ELSE @]
       ELSE /\ sess' = [sess EXCEPT ![s].conn = "open"]
            /\ UNCHANGED << transcriptBufferRef, accepted, isListening >>
    /\ lastOp' = Op("other")
    /\ UNCHANGED << documentUploaded, isRecording, isProcessing, isSpeaking,
                    transcript, response, error, chatHistory,
                    mediaRecorderRef, deepgramSocketRef, deepgramApiKeyRef,
                    audioStreamRef, isProcessingRef, silenceTimerRef,
                    isSpeakingRef, pendingMount, micPending, timers, disp >>

\* mutant: only the processing flag makes the handler drop the event
Dropping_ProcessingOnly == isProcessingRef

\* `isSpeakingRef.current || isProcessingRef.current`
Dropping == isSpeakingRef \/ isProcessingRef

\* LiveTranscriptionEvents.Transcript of session s, with the text and the
\* is_final flag of the event
OnTranscript(s, text, isFinal) ==
    /\ s \in DOMAIN sess
    /\ sess[s].conn = "open" /\ sess[s].handlers
    /\ IF Dropping \/ ~Truthy(text)
       THEN UNCHANGED << transcriptBufferRef, transcript, timers,
                         silenceTimerRef, accepted >>
       ELSE LET cleared == ClearSilenceTimer(timers, silenceTimerRef)
            IN  IF isFinal
                THEN /\ transcriptBufferRef' =
                            AppendFragment(transcriptBufferRef, text)
                     /\ transcript' = Trim(transcriptBufferRef')
                     /\ timers' = cleared \cup { [ id |-> FreshTimer(cleared),
                                                   cap |-> sess[s].cap ] }
                     /\ silenceTimerRef' = FreshTimer(cleared)
                     /\ accepted' = Append(accepted, text)
                ELSE /\ transcript' =
                            Trim(InterimTranscript(transcriptBufferRef, text))
                     /\ timers' = cleared
                     /\ silenceTimerRef' = 0
                     /\ UNCHANGED << transcriptBufferRef, accepted >>
    /\ lastOp' = [ op |-> "onTranscript", isFinal |-> isFinal,
                   blank |-> ~Truthy(text),
                   busy |-> (isProcessing \/ isSpeaking),
                   pending |-> (timers /= {}) ]
    /\ UNCHANGED << documentUploaded, isRecording, isProcessing, isSpeaking,
                    isListening, response, error, chatHistory,
                    mediaRecorderRef, deepgramSocketRef, deepgramApiKeyRef,
                    audioStreamRef, isProcessingRef, isSpeakingRef,
                    pendingMount, micPending, sess, disp >>

\* LiveTranscriptionEvents.Error of session s
ConnError(s) ==
    /\ s \in DOMAIN sess
    /\ sess[s].conn /= "closed" /\ sess[s].handlers
    /\ error' = "transcription"
    /\ lastOp' = Op("other")
    /\ UNCHANGED << documentUploaded, isRecording, isProcessing, isSpeaking,
                    isListening, transcript, response, chatHistory, refVars,
                    envVars, accepted >>

\* LiveTranscriptionEvents.Close of session s: requested by finish() or
\* unexpected
ConnClose(s) ==
    /\ s \in DOMAIN sess
    /\ sess[s].conn /= "closed"
    /\ sess' = Retire([sess EXCEPT ![s].conn = "closed"])
    /\ IF sess[s].handlers
       THEN /\ isListening' = FALSE
            /\ isRecording' = FALSE
            /\ timers' = ClearSilenceTimer(timers, silenceTimerRef)
            /\ silenceTimerRef' = 0
       ELSE UNCHANGED << isListening, isRecording, timers, silenceTimerRef >>
    /\ lastOp' = Op("other")
    /\ UNCHANGED << documentUploaded, isProcessing, isSpeaking, transcript,
                    response, error, chatHistory, mediaRecorderRef,
                    deepgramSocketRef, deepgramApiKeyRef, transcriptBufferRef,
                    audioStreamRef, isProcessingRef, isSpeakingRef,
                    pendingMount, micPending, disp, accepted >>

(***************************************************************************)
(* processTranscript: from its invocation to the await of the query.       *)
(***************************************************************************)
\* mutant: the duplicate-processing guard never holds
AlreadyProcessing_Never == FALSE

\* `if (isProcessingRef.current) return`
AlreadyProcessing == isProcessingRef

\* a processTranscript invocation that has sent its query
NewDispatch(question, cap) ==
    [ pc |-> "query", question |-> question, answer |-> Empty, cap |-> cap,
      audio |-> FALSE, playFired |-> FALSE, over |-> "no", failed |-> FALSE,
      reveals |-> 0, revoked |-> FALSE, stopped |-> FALSE ]

\* processTranscript up to `await axios.post(.../query)`; cap is the
\* isRecording its closure captured
ProcessTranscript(cap) ==
    LET currentTranscript == Trim(transcriptBufferRef)
    IN  IF AlreadyProcessing
        THEN UNCHANGED << isProcessingRef, isProcessing, error, disp >>
        ELSE IF currentTranscript = Empty
        THEN /\ error' = "noTranscript"
             /\ UNCHANGED << isProcessingRef, isProcessing, disp >>
        ELSE /\ isProcessingRef' = TRUE
             /\ isProcessing' = TRUE
             /\ error' = ""
             /\ disp' = Append(disp, NewDispatch(currentTranscript, cap))

\* the callback of the silence timer t
SilenceTimerFire(t) ==
    /\ t \in timers
    /\ timers' = timers \ { t }
    /\ IF Trim(transcriptBufferRef) /= Empty /\ ~isProcessingRef
       THEN /\ isListening' = FALSE
            /\ ProcessTranscript(t.cap)
       ELSE UNCHANGED << isListening, isProcessingRef, isProcessing, error,
                         disp >>
    /\ lastOp' = Op("silenceTimer")
    /\ UNCHANGED << documentUploaded, isRecording, isSpeaking, transcript,
                    response, chatHistory, mediaRecorderRef,
                    deepgramSocketRef, deepgramApiKeyRef, transcriptBufferRef,
                    audioStreamRef, silenceTimerRef, isSpeakingRef,
                    pendingMount, micPending, sess, accepted >>

\* processTranscript invoked as dispatch() by a trigger other than the timer,
\* from the current render
Dispatch ==
    /\ ProcessTranscript(isRecording)
    /\ lastOp' = [op |-> "dispatch", inFlight |-> isProcessingRef]
    /\ UNCHANGED << documentUploaded, isRecording, isSpeaking, isListening,
                    transcript, response, chatHistory, mediaRecorderRef,
                    deepgramSocketRef, deepgramApiKeyRef, transcriptBufferRef,
                    audioStreamRef, silenceTimerRef, isSpeakingRef,
                    pendingMount, micPending, sess, timers, accepted >>

(***************************************************************************)
(* processTranscript after the query, and speakResponse.                   *)
(***************************************************************************)
\* a processTranscript invocation that has returned and whose audio element,
\* if it made one, delivers no further event: nothing of it can be observed
\* any more, so one record stands for all of them
Over(r) ==
    [ pc |-> "done", question |-> Empty, answer |-> Empty, cap |-> FALSE,
      audio |-> FALSE, playFired |-> FALSE, over |-> "gone",
      failed |-> FALSE, reveals |-> 0, revoked |-> FALSE,
      stopped |-> FALSE ]

\* the closures of an invocation that can act no more are forgotten
RetireDispatch(ds) ==
    [ d \in DOMAIN ds |->
        IF ds[d].pc = "done" /\ (~ds[d].audio \/ ds[d].failed
                                  \/ ds[d].over /= "no")
        THEN Over(ds[d]) ELSE ds[d] ]

\* mutant: the history is replaced, not extended: a reveal on a history that
\* holds entries drops them
Reveal_Clear(d) ==
    /\ response' = disp[d].answer
    /\ chatHistory' = IF chatHistory = << >>
                      THEN << [ question |-> disp[d].question,
                                answer |-> disp[d].answer ] >>
                      ELSE << >>

\* mutant: the answer is not revealed
Reveal_Nothing(d) == UNCHANGED << response, chatHistory >>

\* `setResponse(text); setChatHistory(prev => [...prev, {question, answer}])`
\* for dispatch d (the timestamp of the entry is not modelled)
Reveal(d) ==
    /\ response' = disp[d].answer
    /\ chatHistory' = Append(chatHistory,
                             [ question |-> disp[d].question,
                               answer |-> disp[d].answer ])

\* the resume guard `isRecording && deepgramSocketRef.current`, on the
\* isRecording the closure of dispatch d captured
ResumeGuard(d) == disp[d].cap /\ deepgramSocketRef /= 0

\* mutant: the processing flags are left set
FinishDispatch_Busy(d) ==
    /\ transcriptBufferRef' = Empty
    /\ accepted' = << >>
    /\ transcript' = Empty
    /\ UNCHANGED << isProcessingRef, isProcessing, isListening >>

\* processTranscript after `await speakResponse(...)` has returned
FinishDispatch(d) ==
    /\ transcriptBufferRef' = Empty
    /\ accepted' = << >>
    /\ transcript' = Empty
    /\ isProcessingRef' = FALSE
    /\ isProcessing' = FALSE
    /\ isListening' = IF ResumeGuard(d) THEN TRUE ELSE isListening

\* the catch block of speakResponse, then the rest of processTranscript
SpeakCatch(d) ==
    /\ error' = "speech"
    /\ isSpeaking' = FALSE
    /\ isSpeakingRef' = FALSE
    /\ Reveal(d)
    /\ disp' = RetireDispatch([disp EXCEPT ![d].pc = "done",
                                            ![d].failed = TRUE,
                                            ![d].reveals = @ + 1])
    /\ FinishDispatch(d)

\* the query resolves with an answer: speakResponse starts and awaits the
\* synthesis request
QuerySuccess(d, ans) ==
    /\ d \in DOMAIN disp
    /\ disp[d].pc = "query"
    /\ isSpeaking' = TRUE
    /\ isSpeakingRef' = TRUE
    /\ disp' = [disp EXCEPT ![d].pc = "tts", ![d].answer = ans]
    /\ lastOp' = Op("other")
    /\ UNCHANGED << documentUploaded, isRecording, isProcessing, isListening,
                    transcript, response, error, chatHistory,
                    mediaRecorderRef, deepgramSocketRef, deepgramApiKeyRef,
                    transcriptBufferRef, audioStreamRef, isProcessingRef,
                    silenceTimerRef, pendingMount, micPending, sess, timers,
                    accepted >>

\* the query rejects: catch block of processTranscript
QueryFail(d) ==
    /\ d \in DOMAIN disp
    /\ disp[d].pc = "query"
    /\ error' = "query"
    /\ isProcessingRef' = FALSE
    /\ isProcessing' = FALSE
    /\ isListening' = IF ResumeGuard(d) THEN TRUE ELSE isListening
    /\ disp' = RetireDispatch([disp EXCEPT ![d].pc = "done",
                                            ![d].failed = TRUE])
    /\ lastOp' = Op("other")
    /\ UNCHANGED << documentUploaded, isRecording, isSpeaking, transcript,
                    response, chatHistory, mediaRecorderRef,
                    deepgramSocketRef, deepgramApiKeyRef, transcriptBufferRef,
                    audioStreamRef, silenceTimerRef, isSpeakingRef,
                    pendingMount, micPending, sess, timers, accepted >>

\* the synthesis request resolves: the audio element is created, its handlers
\* are attached and play() is called
TtsSuccess(d) ==
    /\ d \in DOMAIN disp
    /\ disp[d].pc = "tts"
    /\ disp' = [disp EXCEPT ![d].pc = "play", ![d].audio = TRUE]
    /\ lastOp' = Op("other")
    /\ UNCHANGED << uiVars, refVars, pendingMount, micPending, sess, timers,
                    accepted >>

\* the synthesis request rejects
TtsFail(d) ==
    /\ d \in DOMAIN disp
    /\ disp[d].pc = "tts"
    /\ SpeakCatch(d)
    /\ lastOp' = Op("ttsFailed")
    /\ UNCHANGED << documentUploaded, isRecording, mediaRecorderRef,
                    deepgramSocketRef, deepgramApiKeyRef, audioStreamRef,
                    silenceTimerRef, pendingMount, micPending, sess, timers >>

\* the `play` event of the audio element: onPlayHandler, which removes itself
AudioPlayEvent(d) ==
    /\ d \in DOMAIN disp
    /\ disp[d].pc = "play" /\ ~disp[d].playFired /\ disp[d].over = "no"
    /\ Reveal(d)
    /\ disp' = [disp EXCEPT ![d].playFired = TRUE, ![d].reveals = @ + 1]
    /\ lastOp' = Op("other")
    /\ UNCHANGED << documentUploaded, isRecording, isProcessing, isSpeaking,
                    isListening, transcript, error, refVars, pendingMount,
                    micPending, sess, timers, accepted >>

\* the promise of audio.play() resolves: playback has begun; speakResponse
\* returns and processTranscript finishes
PlayResolve(d) ==
    /\ d \in DOMAIN disp
    /\ disp[d].pc = "play" /\ disp[d].playFired /\ disp[d].over = "no"
    /\ disp' = RetireDispatch([disp EXCEPT ![d].pc = "done"])
    /\ FinishDispatch(d)
    /\ lastOp' = Op("other")
    /\ UNCHANGED << documentUploaded, isRecording, isSpeaking, response,
                    error, chatHistory, mediaRecorderRef, deepgramSocketRef,
                    deepgramApiKeyRef, audioStreamRef, silenceTimerRef,
                    isSpeakingRef, pendingMount, micPending, sess, timers >>

\* the promise of audio.play() rejects
PlayReject(d) ==
    /\ d \in DOMAIN disp
    /\ disp[d].pc = "play"
    /\ SpeakCatch(d)
    /\ lastOp' = AudioExit("reject", disp[d].revoked)
    /\ UNCHANGED << documentUploaded, isRecording, mediaRecorderRef,
                    deepgramSocketRef, deepgramApiKeyRef, audioStreamRef,
                    silenceTimerRef, pendingMount, micPending, sess, timers >>

\* the `error` event of the audio element: audio.onerror
AudioError(d) ==
    /\ d \in DOMAIN disp
    /\ disp[d].audio /\ disp[d].over = "no" /\ ~disp[d].failed
    /\ isSpeaking' = FALSE
    /\ isSpeakingRef' = FALSE
    /\ error' = "playback"
    /\ Reveal(d)
    /\ disp' = RetireDispatch([disp EXCEPT ![d].over = "error",
                                            ![d].reveals = @ + 1])
    /\ lastOp' = AudioExit("error", disp[d].revoked)
    /\ UNCHANGED << documentUploaded, isRecording, isProcessing, isListening,
                    transcript, mediaRecorderRef, deepgramSocketRef,
                    deepgramApiKeyRef, transcriptBufferRef, audioStreamRef,
                    isProcessingRef, silenceTimerRef, pendingMount,
                    micPending, sess, timers, accepted >>

\* the `ended` event of the audio element: audio.onended
AudioEnded(d) ==
    /\ d \in DOMAIN disp
    /\ disp[d].audio /\ disp[d].pc = "done" /\ disp[d].over = "no"
    /\ ~disp[d].failed
    /\ isSpeaking' = FALSE
    /\ isSpeakingRef' = FALSE
    /\ disp' = RetireDispatch([disp EXCEPT ![d].over = "ended",
                                            ![d].revoked = TRUE])
    /\ lastOp' = AudioExit("ended", TRUE)
    /\ UNCHANGED << documentUploaded, isRecording, isProcessing, isListening,
                    transcript, response, error, chatHistory,
                    mediaRecorderRef, deepgramSocketRef, deepgramApiKeyRef,
                    transcriptBufferRef, audioStreamRef, isProcessingRef,
                    silenceTimerRef, pendingMount, micPending, sess, timers,
                    accepted >>

(***************************************************************************)
(* Specifications.                                                         *)
(***************************************************************************)
\* fewer than n startRecording invocations have reached getUserMedia
CanStart(n) == Len(sess) + Len(micPending) < n

\* fewer than n processTranscript invocations have returned
CanDispatch(n) == Cardinality({ d \in DOMAIN disp : disp[d].pc = "done" }) < n

\* the buffer has room for the text
Fits(text) == Len(transcriptBufferRef) + 1 + Len(text) <= MaxBufLen

\* the events of the browser, the user and the services, with at most n
\* sessions, m dispatches and the transcripts texts
Events(n, m, texts) ==
    \/ \E ok \in BOOLEAN : FetchApiKeys(ok)
    \/ \E loaded \in BOOLEAN : CheckDocumentStatus(loaded)
    \/ CanStart(n) /\ StartRecording
    \/ \E i \in DOMAIN micPending, ok \in BOOLEAN : MicGranted(i, ok)
    \/ \E i \in DOMAIN micPending : MicDenied(i)
    \/ StopRecording
    \/ \E s \in DOMAIN sess : ConnOpen(s)
    \/ \E s \in DOMAIN sess, text \in texts, isFinal \in BOOLEAN :
          Fits(text) /\ OnTranscript(s, text, isFinal)
    \/ \E s \in DOMAIN sess : ConnError(s)
    \/ \E s \in DOMAIN sess : ConnClose(s)
    \/ \E t \in timers : CanDispatch(m) /\ SilenceTimerFire(t)
    \/ \E d \in DOMAIN disp, ans \in Answers : QuerySuccess(d, ans)
    \/ \E d \in DOMAIN disp : QueryFail(d)
    \/ \E d \in DOMAIN disp : TtsSuccess(d)
    \/ \E d \in DOMAIN disp : TtsFail(d)
    \/ \E d \in DOMAIN disp : AudioPlayEvent(d)
    \/ \E d \in DOMAIN disp : PlayResolve(d)
    \/ \E d \in DOMAIN disp : PlayReject(d)
    \/ \E d \in DOMAIN disp : AudioError(d)
    \/ \E d \in DOMAIN disp : AudioEnded(d)

\* the conversations of a page whose document the backend holds
Next == Events(MaxSessions, MaxDispatch, TranscriptTexts)

Spec == Init /\ [][Next]_vars

\* one conversation turn
NextTurn == Events(TurnSessions, TurnDispatch, TranscriptTexts)

SpecTurn == Init /\ [][NextTurn]_vars

\* one conversation turn, with dispatch() also invoked by a trigger other
\* than the timer
NextDispatch == NextTurn \/ (CanDispatch(TurnDispatch) /\ Dispatch)

SpecDispatch == Init /\ [][NextDispatch]_vars

\* one conversation turn whose transcripts hold two different words
\* the conversation of one session, with stopRecording also invoked from
\* states in which its button is not rendered
NextStop == NextTurn \/ StopRecordingCall
SpecStop == Init /\ [][NextStop]_vars

\* the conversation of one session, with the chunks of its recorder
NextAudio ==
    \/ NextTurn
    \/ \E s \in DOMAIN sess, hasData \in BOOLEAN : DataAvailable(s, hasData)
SpecAudio == Init /\ [][NextAudio]_vars

\* two sessions, one dispatch, and transcripts of two different words
NextQuery == Events(MaxSessions, TurnDispatch, FragmentTexts)
SpecQuery == Init /\ [][NextQuery]_vars

\* the requests and the playback settle: the query request resolves or
\* rejects, the synthesis request resolves or rejects, the promise of
\* audio.play() resolves or rejects, and an audio element that plays ends or
\* reports an error
QuerySettles ==
    \E d \in DOMAIN disp :
        (\E ans \in Answers : QuerySuccess(d, ans)) \/ QueryFail(d)
TtsSettles == \E d \in DOMAIN disp : TtsSuccess(d) \/ TtsFail(d)
PlaySettles == \E d \in DOMAIN disp : PlayResolve(d) \/ PlayReject(d)
AudioSettles == \E d \in DOMAIN disp : AudioEnded(d) \/ AudioError(d)

\* the conversation of one session in which they do
SpecLive ==
    /\ Init /\ [][NextTurn]_vars
    /\ WF_vars(QuerySettles) /\ WF_vars(TtsSettles)
    /\ WF_vars(PlaySettles) /\ WF_vars(AudioSettles)

NextFragments == Events(TurnSessions, TurnDispatch, FragmentTexts)

SpecFragments == Init /\ [][NextFragments]_vars

\* the conversation of one session on a page whose document is uploaded and
\* reset
NextDocument ==
    \/ NextTurn
    \/ \E ok \in BOOLEAN : HandleFileUpload(ok)
    \/ ResetDocument

SpecDocument == Init /\ [][NextDocument]_vars

(***************************************************************************)
(* Properties.                                                             *)
(***************************************************************************)
\* the processTranscript invocations that have not returned
InFlight == { d \in DOMAIN disp : disp[d].pc /= "done" }

\* the step is a transcript event with a non-blank final text that arrived
\* while neither processing nor speaking was true
AcceptedFinal(op) ==
    /\ op.op = "onTranscript"
    /\ op.isFinal /\ ~op.blank /\ ~op.busy

\* the step is one of dispatch d, whose synthesis call returned audio, and
\* appends an entry to the history
RevealOf(d) ==
    /\ disp[d].audio /\ disp'[d] /= disp[d]
    /\ Len(chatHistory') > Len(chatHistory)

RECURSIVE JoinSpace(_)
\* the texts of a sequence joined by single spaces
JoinSpace(texts) ==
    IF texts = << >> THEN Empty
    ELSE IF Len(texts) = 1 THEN texts[1]
    ELSE texts[1] \o Space \o JoinSpace(Tail(texts))

\* C1: at most one processTranscript invocation is in flight at any time, and
\* a dispatch() invoked while one is in flight changes no state of the
\* program and sends no query.
C1_OneOutstandingQuery ==
    /\ [](Cardinality(InFlight) <= 1)
    /\ [][ (lastOp'.op = "dispatch" /\ InFlight /= {})
             => UNCHANGED progVars ]_vars

\* C1 witness: dispatch() was invoked while the query of an earlier invocation
\* was outstanding.
C1_Witness ==
    /\ lastOp.op = "dispatch" /\ lastOp.inFlight
    /\ \E d \in InFlight : disp[d].pc = "query"

\* C2: a transcript event, final or partial, that arrives while processing or
\* speaking is true leaves the transcript buffer and the displayed transcript
\* unchanged.
C2_DropWhileBusy ==
    [][ (lastOp'.op = "onTranscript" /\ (isProcessing \/ isSpeaking))
          => UNCHANGED << transcriptBufferRef, transcript >> ]_vars

\* C2 witness: a non-blank final transcript arrived while the answer was
\* playing after processing had ended, and nothing was queued for it.
C2_Witness ==
    /\ lastOp.op = "onTranscript" /\ lastOp.busy
    /\ lastOp.isFinal /\ ~lastOp.blank
    /\ isSpeaking /\ ~isProcessing
    /\ timers = {}

\* C3: the buffer, trimmed as it is displayed and sent, is the texts of the
\* final transcripts accepted since it was last emptied, in arrival order,
\* joined by single spaces; and that is what is displayed after each of them.
C3_BufferIsJoin ==
    /\ Trim(transcriptBufferRef) = JoinSpace(accepted)
    /\ AcceptedFinal(lastOp) => transcript = JoinSpace(accepted)

\* C3 witness: two different fragments have been accepted, the second one
\* last.
C3_Witness ==
    /\ AcceptedFinal(lastOp)
    /\ Len(accepted) = 2 /\ accepted[1] /= accepted[2]
    /\ transcript = accepted[1] \o Space \o accepted[2]

C5_ExactlyOneReveal ==
    [][ \A d \in DOMAIN disp :
          /\ RevealOf(d)
               => /\ disp[d].reveals = 0
                  /\ \/ disp'[d].playFired /\ ~disp[d].playFired
                     \/ disp'[d].over /= "no"
          /\ (disp[d].audio /\ disp[d].pc = "play" /\ disp'[d].pc = "done")
               => disp[d].reveals + (IF RevealOf(d) THEN 1 ELSE 0) = 1 ]_vars

\* C6: right after stop() no silence timer is pending, no connection is open,
\* no microphone track is live, and recording and listening are false.
C6_StopReleasesAll ==
    lastOp.op = "stopRecording" =>
        /\ timers = {}
        /\ ~isRecording /\ ~isListening
        /\ \A s \in DOMAIN sess :
              /\ sess[s].track /= "live"
              /\ sess[s].conn = "closed" \/ sess[s].finished

\* C7: the settlement of a query that was in flight when stop() ran sets
\* neither listening nor speaking to true.
C7_StaleResultIgnored ==
    [][ (\E d \in DOMAIN disp :
            /\ disp[d].pc = "query" /\ disp[d].stopped
            /\ disp'[d].pc /= "query")
          => /\ isSpeaking' => isSpeaking
             /\ isListening' => isListening ]_vars

\* C8: while recording is true at most one of listening, processing and
\* speaking is true, and while it is false none of them is.
C8_SessionFlags ==
    /\ isRecording =>
          /\ ~(isListening /\ isProcessing)
          /\ ~(isListening /\ isSpeaking)
          /\ ~(isProcessing /\ isSpeaking)
    /\ ~isRecording => ~isListening /\ ~isProcessing /\ ~isSpeaking

\* C9: when a processTranscript invocation returns while the session is
\* recording and holds its connection, listening is true.
C9_ListeningResumes ==
    [][ (/\ \E d \in DOMAIN disp :
               disp[d].pc /= "done" /\ disp'[d].pc = "done"
         /\ isRecording' /\ deepgramSocketRef' /= 0)
          => isListening' ]_vars

\* C10: when the query request fails the transcript buffer is emptied.
C10_BufferClearedOnQueryFailure ==
    [][ (\E d \in DOMAIN disp :
            disp[d].pc = "query" /\ disp'[d].pc = "done")
          => transcriptBufferRef' = Empty ]_vars

\* C11: after the last event of an audio element (playback ended, a playback
\* error event, or play() rejected) its blob URL has been released.
C11_BlobUrlReleased ==
    lastOp.op = "audioExit" => lastOp.revoked

\* C12: the step in which the Close handler of a session runs leaves the
\* session idle: recording and listening false, no silence timer pending, its
\* microphone track stopped, its recorder not capturing and no connection
\* held in deepgramSocketRef.
C12_CloseLeavesIdle ==
    [][ \A s \in DOMAIN sess :
          (sess[s].handlers /\ sess[s].conn /= "closed"
             /\ sess'[s].conn = "closed")
            => /\ ~isRecording' /\ ~isListening'
               /\ timers' = {}
               /\ sess'[s].track /= "live"
               /\ sess'[s].rec /= "recording"
               /\ deepgramSocketRef' = 0 ]_vars

\* C13: when startRecording fails after the credential check, recording is
\* false and what the invocation had acquired is released: the microphone
\* track of its session is stopped, its connection is closed or asked to
\* close, and deepgramSocketRef and audioStreamRef hold nothing.
C13_FailedStartReleases ==
    lastOp.op = "startFailed" =>
        /\ ~isRecording
        /\ audioStreamRef = 0
        /\ deepgramSocketRef = 0
        /\ lastOp.made /= 0 =>
              /\ sess[lastOp.made].track /= "live"
              /\ sess[lastOp.made].conn = "closed"
                    \/ sess[lastOp.made].finished

\* C14: startRecording invoked while the credential is not loaded sets the
\* credential-missing error and changes nothing else: recording stays false,
\* no microphone is requested, no connection is created and the transcript
\* and the response stay as they were.
C14_StartWithoutKey ==
    [][ (lastOp'.op = "startRecording" /\ ~deepgramApiKeyRef)
          => /\ error' = "apiKeyNotLoaded"
             /\ ~isRecording'
             /\ UNCHANGED << documentUploaded, isRecording, isProcessing,
                             isSpeaking, isListening, transcript, response,
                             chatHistory, refVars, envVars, accepted >> ]_vars

\* C14 witness: startRecording has just run without the credential, after
\* the request for it failed; nothing waits for the microphone and no session
\* exists.
C14_Witness ==
    /\ lastOp.op = "startRecording"
    /\ ~deepgramApiKeyRef /\ "keys" \notin pendingMount
    /\ error = "apiKeyNotLoaded"
    /\ ~isRecording /\ micPending = << >> /\ sess = << >>

\* C15: a partial transcript event leaves the buffer and the silence timer as
\* they were: the timer an earlier final armed is still armed after it.
C15_PartialKeepsTimer ==
    [][ (lastOp'.op = "onTranscript" /\ ~lastOp'.isFinal)
          => UNCHANGED << transcriptBufferRef, timers, silenceTimerRef >>
    ]_vars

\* C16: a run of stopRecording that directly follows another one changes
\* nothing: no state, no ref, no resource and no error message.
C16_StopIdempotent ==
    [][ (lastOp'.op = "stopRecording" /\ lastOp'.again)
          => UNCHANGED progVars ]_vars

\* C16 witness: stopRecording has run twice in a row while a query was in
\* flight, on a session whose connection it had asked to close.
C16_Witness ==
    /\ lastOp.op = "stopRecording" /\ lastOp.again
    /\ \E d \in DOMAIN disp : disp[d].pc = "query"
    /\ \E s \in DOMAIN sess : sess[s].finished /\ sess[s].track = "stopped"
    /\ ~isRecording /\ ~isListening

\* C17: when the synthesis request fails, the same step surfaces an error,
\* reveals the answer, appends one history entry holding the dispatched
\* question and its answer, and clears the speaking flag.
C17_TtsFailureReveals ==
    [][ lastOp'.op = "ttsFailed"
          => \E d \in DOMAIN disp :
                /\ disp[d].pc = "tts" /\ disp'[d].pc = "done"
                /\ error' /= ""
                /\ response' = disp[d].answer
                /\ chatHistory' =
                      Append(chatHistory, [ question |-> disp[d].question,
                                            answer |-> disp[d].answer ])
                /\ ~isSpeaking' /\ ~isSpeakingRef' ]_vars

\* C17 witness: the synthesis request of the first question has just failed
\* and the history holds its one entry.
C17_Witness ==
    /\ lastOp.op = "ttsFailed"
    /\ error = "speech" /\ ~isSpeaking
    /\ response \in Answers
    /\ Len(chatHistory) = 1 /\ chatHistory[1].answer = response
    /\ chatHistory[1].question = <<"a">>

\* C18: a recorder captures only after the Open event of its connection, and
\* a chunk is sent only into a connection that is open at that moment.
C18_AudioOnlyIntoOpen ==
    /\ [](\A s \in DOMAIN sess :
             sess[s].rec = "recording" => sess[s].conn /= "connecting")
    /\ [][ (lastOp'.op = "dataAvailable" /\ lastOp'.sent /= 0)
             => sess[lastOp'.sent].conn = "open" ]_vars

\* C18 witness: a chunk with data was produced after the connection had
\* closed, while deepgramSocketRef still held it, and was not sent.
C18_Witness ==
    /\ lastOp.op = "dataAvailable" /\ lastOp.sent = 0
    /\ deepgramSocketRef /= 0
    /\ sess[deepgramSocketRef].conn = "closed"
    /\ sess[deepgramSocketRef].rec = "recording"

\* C19: at most one silence timer is pending in every state, and none is
\* pending right after stopRecording, after a processTranscript invocation
\* has sent its query, or after the Close handler of a connection has run.
C19_OneTimer ==
    /\ [](Cardinality(timers) <= 1)
    /\ [][ (\/ lastOp'.op = "stopRecording"
            \/ Len(disp') > Len(disp)
            \/ \E s \in DOMAIN sess :
                  /\ sess[s].handlers /\ sess[s].conn /= "closed"
                  /\ sess'[s].conn = "closed")
             => timers' = {} ]_vars

\* C19 witness: stopRecording has run while a silence timer was pending, with
\* a fragment in the buffer, and none is pending now.
C19_Witness ==
    /\ lastOp.op = "stopRecording" /\ lastOp.pending
    /\ accepted /= << >>
    /\ timers = {} /\ silenceTimerRef = 0

\* C20: a step that changes the transcript buffer either appends an accepted
\* final fragment to it or empties it as a dispatch returns; and no step
\* empties it while a query is in flight.
C20_BufferWrites ==
    [][ transcriptBufferRef' /= transcriptBufferRef
          => /\ \/ /\ AcceptedFinal(lastOp')
                   /\ \E text \in FragmentTexts :
                         transcriptBufferRef' =
                            AppendFragment(transcriptBufferRef, text)
                \/ /\ transcriptBufferRef' = Empty
                   /\ \E d \in DOMAIN disp :
                         disp[d].pc /= "done" /\ disp'[d].pc = "done"
             /\ transcriptBufferRef' = Empty
                  => \A d \in DOMAIN disp' : disp'[d].pc /= "query" ]_vars

\* C21: the fire of the silence timer with a non-blank buffer sends exactly
\* one query, whose text is the single-space join of the final fragments
\* accepted since the buffer was last emptied; with a blank buffer it sends
\* none and does not set processing.
C21_QueryIsJoin ==
    [][ lastOp'.op = "silenceTimer"
          => IF Trim(transcriptBufferRef) /= Empty
             THEN /\ Len(disp') = Len(disp) + 1
                  /\ disp'[Len(disp')].pc = "query"
                  /\ disp'[Len(disp')].question = JoinSpace(accepted)
                  /\ \A d \in DOMAIN disp : disp'[d] = disp[d]
             ELSE /\ disp' = disp
                  /\ isProcessing' = isProcessing
                  /\ isProcessingRef' = isProcessingRef ]_vars

\* C21 witness: the timer has fired after two different fragments and the
\* query holds them in arrival order with one space between them.
C21_Witness ==
    /\ lastOp.op = "silenceTimer"
    /\ Len(accepted) = 2 /\ accepted[1] /= accepted[2]
    /\ disp /= << >>
    /\ disp[Len(disp)].pc = "query"
    /\ disp[Len(disp)].question = accepted[1] \o Space \o accepted[2]
    /\ isProcessing

\* C22: a step other than resetDocument leaves the history as it was or
\* appends one entry at its end; resetDocument empties it.
C22_HistoryAppendOnly ==
    [][ IF lastOp'.op = "resetDocument"
        THEN chatHistory' = << >>
        ELSE \/ chatHistory' = chatHistory
             \/ /\ Len(chatHistory') = Len(chatHistory) + 1
                /\ SubSeq(chatHistory', 1, Len(chatHistory)) = chatHistory
      ]_vars

\* C22 witness: resetDocument has just emptied a history that held an entry.
C22_Witness ==
    /\ lastOp.op = "resetDocument" /\ lastOp.had >= 1
    /\ chatHistory = << >>
    /\ ~documentUploaded

\* the audio element of dispatch d exists and has neither ended nor failed
Playing(d) == disp[d].audio /\ disp[d].over = "no" /\ ~disp[d].failed

\* C23: a processTranscript invocation sets the processing flag only while
\* isSpeakingRef is false, and no invocation is in flight while the audio of
\* another one can still play.
C23_NoDispatchWhileSpeaking ==
    /\ [][ Len(disp') > Len(disp)
             => ~isSpeakingRef /\ ~isSpeaking /\ isProcessingRef' ]_vars
    /\ [](\A d1, d2 \in DOMAIN disp :
             (d1 /= d2 /\ Playing(d1)) => disp[d2].pc = "done" /\ ~Playing(d2))

\* C23 witness: a second question has been dispatched after the answer to the
\* first one was revealed and its audio was over.
C23_Witness ==
    /\ lastOp.op = "silenceTimer"
    /\ Len(disp) = 2 /\ disp[2].pc = "query"
    /\ disp[1].pc = "done" /\ ~Playing(1)
    /\ Len(chatHistory) >= 1
    /\ ~isSpeakingRef /\ isProcessingRef

\* C24: after stopRecording has run while startRecording was connecting, the
\* continuations of that invocation do not revive the session: the Open
\* event of a connection stopRecording asked to close sets no flag and starts
\* no recorder, and a microphone grant that arrives when recording is already
\* false leaves no live track and no connection that was not asked to close.
C24_StopWhileConnecting ==
    [][ /\ \A s \in DOMAIN sess :
             (sess[s].finished /\ sess[s].conn = "connecting"
                /\ sess'[s].conn = "open")
               => /\ isListening' => isListening
                  /\ isRecording' => isRecording
                  /\ sess'[s].rec /= "recording"
        /\ (Len(micPending') < Len(micPending) /\ ~isRecording)
               => /\ ~isRecording' /\ ~isListening'
                  /\ \A s \in DOMAIN sess' :
                        /\ sess'[s].track /= "live"
                        /\ sess'[s].conn = "closed" \/ sess'[s].finished
      ]_vars

\* C25: if every request and every playback settles, processing, once true,
\* becomes false again, and so does speaking.
C25_DispatchTerminates ==
    /\ isProcessing ~> ~isProcessing
    /\ isProcessingRef ~> ~isProcessingRef
    /\ isSpeaking ~> ~isSpeaking
    /\ isSpeakingRef ~> ~isSpeakingRef

\* C25 witness: a dispatch has returned after its answer was revealed, its
\* audio is over, and no flag is left set.
C25_Witness ==
    /\ disp /= << >> /\ disp[1].pc = "done" /\ ~Playing(1)
    /\ Len(chatHistory) >= 1
    /\ ~isProcessing /\ ~isProcessingRef /\ ~isSpeaking /\ ~isSpeakingRef

=============================================================================
